---- MODULE Spec2Model ----
(***************************************************************************)
(* Model of the Eventful mixin (src/src/eventful.ts): the listener table,  *)
(* the one-shot index table and the DOM event target it delegates to.      *)
(*                                                                         *)
(* A JavaScript object used as a dictionary is a function whose DOMAIN is  *)
(* the set of its keys.  A JavaScript array is a sequence; a slot removed  *)
(* with `delete` is the value Hole.  Array indices stored by the program   *)
(* are 0-based, as in the source; slot i of an array is arr[i + 1].        *)
(*                                                                         *)
(* Every call of on/once creates a fresh bound wrapper (fnc.bind(this)).   *)
(* The wrapper created by the k-th registration is the number k, and       *)
(* regs[k] remembers which user callback it wraps.                         *)
(*                                                                         *)
(* A listener is user code: while it runs it may call on, once, off and    *)
(* fireEvent of the same instance.  fireEvent is therefore modelled as a   *)
(* call frame on a stack: the call (event creation and the start of        *)
(* dispatchEvent), one step per listener of the dispatch, and the return   *)
(* (the one-shot pruning that follows dispatchEvent).                      *)
(*                                                                         *)
(* Spec is one instance under the four public methods.  SpecEventify adds  *)
(* Eventify (src/src/helpers.ts) applied to the instance again, SpecTwo a  *)
(* second instance, and SpecRemove calls _removeEmptyElements on its own.  *)
(***************************************************************************)
EXTENDS Integers, Sequences, FiniteSets, TLC

\* Event names, user callbacks and payloads the calls are drawn from.
Names == {"meow", "greet"}
Fncs == {"f"}
Omitted == "undefined"
EmptyObject == "{}"
Datas == {Omitted, "count"}

\* Bound of the exploration: the number of calls of on, once, off and
\* fireEvent in a run, those made from inside listeners included.
MaxOps == 5

\* An array slot removed with `delete` (wrappers are numbered from 1).
Hole == 0

VARIABLES
    _listeners,      \* name -> array of wrappers
    _onceListeners,  \* name -> array of 0-based indices into _listeners[name]
    _eventTarget,    \* the event listener list of the text node
    regs,            \* history: one record per on/once call, indexed by wrapper
    stack,           \* fireEvent calls in progress, innermost last
    lastOp,          \* the last call of the API that was made or completed
    ops,             \* number of calls of on, once, off and fireEvent so far
    hasCustomEvent,  \* typeof CustomEvent === 'function' in this host
    detached,        \* listener lists of the text nodes a dispatch still walks
                     \* after Eventify has given the object a new one
    gen,             \* number of times Eventify has re-run the constructor
    self,            \* the instance the calls are made on
    other,           \* the fields of the other instance
    removeCall       \* a direct call of _removeEmptyElements

\* The state outside the fields of the instance the calls are made on.
objects == <<detached, gen, self, other>>

vars == <<_listeners, _onceListeners, _eventTarget, regs, stack, lastOp, ops,
          hasCustomEvent, objects, removeCall>>

\* regs[w] = [name, fnc, once, calls, offed, inst, gen]: the arguments of the
\* call that made wrapper w, whether it was a call of once, how many times a
\* one-shot wrapper has been invoked, whether an off has removed the wrapper,
\* the instance the call was made on and how many times Eventify had been
\* applied to that instance before.
\*
\* A frame of the stack = [name, data, event, path, pos, running, log,
\* startRegs, afterOff, target, gen]: the arguments of the fireEvent call, the event it
\* dispatches, the copy of the listener list the dispatch walks through and
\* the position in it, whether the listener at that position is running,
\* the invocations made so far, the number of registrations made before the
\* call, whether the call directly follows an off of the same name, the text
\* node the dispatch runs on (0: the one in this._eventTarget, k: the
\* detached one detached[k]) and how many times Eventify had been applied
\* to the instance before the call.

----------------------------------------------------------------------------
(* JavaScript objects and arrays *)

EmptyDict == [n \in {} |-> <<>>]

Put(obj, key, value) ==
    [n \in (DOMAIN obj) \cup {key} |-> IF n = key THEN value ELSE obj[n]]

\* Variant of Delete: every key of the object is removed.
DeleteEveryKey(obj, key) == [n \in {} |-> <<>>]

\* delete obj[key]
Delete(obj, key) == [n \in (DOMAIN obj) \ {key} |-> obj[n]]

\* obj[key] as an optional value: <<>> when the key is absent (undefined),
\* <<v>> when it is present.
Lookup(obj, key) == IF key \in DOMAIN obj THEN <<obj[key]>> ELSE <<>>

\* arr[index] as an optional value: <<>> for an index out of range or a hole.
Slot(arr, index) ==
    IF index + 1 \in DOMAIN arr /\ arr[index + 1] # Hole
    THEN <<arr[index + 1]>> ELSE <<>>

\* delete arr[index]
DeleteSlot(arr, index) ==
    [i \in DOMAIN arr |-> IF i = index + 1 THEN Hole ELSE arr[i]]

\* Variant of Push: the element is put at the front (unshift).
Unshift(arr, el) == <<el>> \o arr

\* arr.push(el)
Push(arr, el) == Append(arr, el)

\* An element that is present and holds a falsy value (undefined, null, 0,
\* '', false or NaN).
FalsyValue == -1

\* Variant of Truthy: every slot that is present passes the filter.
Present(el) == el # Hole

\* el => el, the callback of the filter; filter passes over a deleted slot.
Truthy(el) == el # Hole /\ el # FalsyValue

\* Variant of _removeEmptyElements: the array is returned as it is.
KeepAllElements(arr) ==
    IF arr = <<>> THEN <<>> ELSE arr[1]

\* _removeEmptyElements(arr), arr given as an optional value
_removeEmptyElements(arr) ==
    IF arr = <<>> THEN <<>> ELSE SelectSeq(arr[1], Truthy)

----------------------------------------------------------------------------
(* The event target (EventTarget of the DOM) *)

Matches(l, type, callback) == l.type = type /\ l.callback = callback

\* addEventListener(type, callback, {once}): appended unless a listener with
\* the same type and callback is already in the list.
addEventListener(target, type, callback, once) ==
    IF \E i \in DOMAIN target : Matches(target[i], type, callback)
    THEN target
    ELSE Append(target, [type |-> type, callback |-> callback, once |-> once])

\* removeEventListener(type, callback), callback given as an optional value
\* (removeEventListener(type, undefined) does nothing).
removeEventListener(target, type, callback) ==
    IF callback = <<>> THEN target
    ELSE LET Keep(l) == ~Matches(l, type, callback[1])
         IN SelectSeq(target, Keep)

\* Is the wrapper still in the listener list (its `removed` flag is unset)?
Registered(target, type, callback) ==
    \E i \in DOMAIN target : Matches(target[i], type, callback)

RECURSIVE CallbacksOf(_, _)
\* The callbacks of the listeners of one type, in list order.
CallbacksOf(target, type) ==
    IF target = <<>> THEN <<>>
    ELSE LET rest == CallbacksOf(Tail(target), type)
         IN IF Head(target).type = type
            THEN <<Head(target).callback>> \o rest ELSE rest

----------------------------------------------------------------------------
(* The call stack *)

Top == stack[Len(stack)]

\* Code of the user is running: the top level, or a listener being invoked.
CanCall == IF stack = <<>> THEN TRUE ELSE Top.running

SetTop(frame) == [stack EXCEPT ![Len(stack)] = frame]

Done(op, name, err) == [op |-> op, name |-> name, err |-> err]

----------------------------------------------------------------------------
(* Eventful *)

\* The table entry of a name, empty when the name has no key.
Entries(name) == IF name \in DOMAIN _listeners THEN _listeners[name] ELSE <<>>

\* Variant of Bind: the callback is registered as it is, so that two
\* registrations of one callback share one function object.
NoBind(fnc) ==
    IF \E w \in DOMAIN regs : regs[w].fnc = fnc
    THEN CHOOSE w \in DOMAIN regs : regs[w].fnc = fnc
    ELSE Len(regs) + 1

\* fnc.bind(this): a new function object at every call.
Bind(fnc) == Len(regs) + 1

\* Variant of OnceOptions: the listener is registered without {once: true}.
NoOnceOptions == [once |-> FALSE]

\* The options of the listener that once registers.
OnceOptions == [once |-> TRUE]

\* on(name, fnc)
on(name, fnc) ==
    /\ CanCall
    /\ ops < MaxOps
    /\ ops' = ops + 1
    /\ UNCHANGED hasCustomEvent
    /\ LET wrapper == Bind(fnc)
           created == IF name \notin DOMAIN _listeners
                      THEN Put(_listeners, name, <<>>) ELSE _listeners
           pushed == Put(created, name, Push(created[name], wrapper))
           index == Len(pushed[name]) - 1
       IN /\ _listeners' = pushed
          /\ _eventTarget' = addEventListener(_eventTarget, name,
                                              pushed[name][index + 1], FALSE)
          /\ regs' = Append(regs, [name |-> name, fnc |-> fnc, once |-> FALSE,
                                   calls |-> 0, offed |-> FALSE,
                                   inst |-> self, gen |-> gen])
    /\ lastOp' = Done("on", name, "none")
    /\ UNCHANGED <<_onceListeners, stack, objects, removeCall>>

\* once(name, fnc)
once(name, fnc) ==
    /\ CanCall
    /\ ops < MaxOps
    /\ ops' = ops + 1
    /\ UNCHANGED hasCustomEvent
    /\ LET wrapper == Bind(fnc)
           created == IF name \notin DOMAIN _listeners
                      THEN Put(_listeners, name, <<>>) ELSE _listeners
           pushed == Put(created, name, Push(created[name], wrapper))
           index == Len(pushed[name]) - 1
           onceCreated == IF name \notin DOMAIN _onceListeners
                          THEN Put(_onceListeners, name, <<>>) ELSE _onceListeners
       IN /\ _listeners' = pushed
          /\ _onceListeners' = Put(onceCreated, name,
                                   Push(onceCreated[name], index))
          /\ _eventTarget' = addEventListener(_eventTarget, name,
                                              pushed[name][index + 1],
                                              OnceOptions.once)
          /\ regs' = Append(regs, [name |-> name, fnc |-> fnc, once |-> TRUE,
                                   calls |-> 0, offed |-> FALSE,
                                   inst |-> self, gen |-> gen])
    /\ lastOp' = Done("once", name, "none")
    /\ UNCHANGED <<stack, objects, removeCall>>

\* Variant of RemoveEach: only the first listener of the entry is removed.
RemoveFirst(target, name, arr) ==
    IF arr = <<>> THEN target
    ELSE removeEventListener(target, name, Slot(arr, 0))

RECURSIVE RemoveEach(_, _, _)
\* this._listeners[name].forEach(event => removeEventListener(name, event))
RemoveEach(target, name, arr) ==
    IF arr = <<>> THEN target
    ELSE RemoveEach(removeEventListener(target, name, Slot(arr, 0)),
                    name, Tail(arr))

\* off(name).  When the name has no key, this._listeners[name].length reads
\* a property of undefined: a TypeError is thrown and nothing is changed.
off(name) ==
    /\ CanCall
    /\ ops < MaxOps
    /\ ops' = ops + 1
    /\ UNCHANGED hasCustomEvent
    /\ IF name \notin DOMAIN _listeners
       THEN /\ lastOp' = Done("off", name, "TypeError")
            /\ UNCHANGED <<_listeners, _onceListeners, _eventTarget, regs>>
       ELSE LET removed == { _listeners[name][i] : i \in DOMAIN _listeners[name] }
                deleted == Delete(_listeners, name)
                onceDeleted == Delete(_onceListeners, name)
            IN /\ _eventTarget' =
                      IF Len(_listeners[name]) # 0
                      THEN RemoveEach(_eventTarget, name, _listeners[name])
                      ELSE _eventTarget
               /\ _listeners' = Put(deleted, name,
                                    _removeEmptyElements(Lookup(deleted, name)))
               /\ _onceListeners' = Put(onceDeleted, name,
                                    _removeEmptyElements(Lookup(onceDeleted, name)))
               /\ regs' = [w \in DOMAIN regs |->
                              IF w \in removed
                              THEN [regs[w] EXCEPT !.offed = TRUE] ELSE regs[w]]
               /\ lastOp' = Done("off", name, "none")
    /\ UNCHANGED <<stack, objects, removeCall>>

\* Variant of _createEvent: data has no default value.
_createEventNoDefault(name, data, custom) ==
    IF custom
    THEN [type |-> name, detail |-> data, class |-> "CustomEvent"]
    ELSE [[type |-> name, detail |-> Omitted, class |-> "Event"]
             EXCEPT !.detail = data]

\* _createEvent(name, data): data defaults to {} when it is omitted; the
\* event is a CustomEvent where the host has one, else a plain Event with
\* the detail attached afterwards.
_createEvent(name, data, custom) ==
    LET d == IF data = Omitted THEN EmptyObject ELSE data
    IN IF custom
       THEN [type |-> name, detail |-> d, class |-> "CustomEvent"]
       ELSE [[type |-> name, detail |-> Omitted, class |-> "Event"]
                EXCEPT !.detail = d]

\* fireEvent(name, data), the call: the event is created and dispatchEvent
\* starts on a copy of the listener list.
fireEvent(name, data) ==
    /\ CanCall
    /\ ops < MaxOps
    /\ ops' = ops + 1
    /\ UNCHANGED hasCustomEvent
    /\ stack' = Append(stack,
          [name |-> name, data |-> data,
           event |-> _createEvent(name, data, hasCustomEvent),
           path |-> CallbacksOf(_eventTarget, name),
           pos |-> 1, running |-> FALSE, log |-> <<>>,
           startRegs |-> Len(regs),
           afterOff |-> lastOp = Done("off", name, "none"),
           target |-> 0, gen |-> gen])
    /\ lastOp' = Done("dispatchEvent", name, "none")
    /\ UNCHANGED <<_listeners, _onceListeners, _eventTarget, regs, objects,
                   removeCall>>

\* The listener list of the text node the dispatch of a frame runs on.
TargetOf(frame) ==
    IF frame.target = 0 THEN _eventTarget ELSE detached[frame.target]

\* dispatchEvent, one listener of the copy: a listener removed from the
\* target in the meantime is passed over.
SkipRemoved ==
    /\ stack # <<>>
    /\ ~Top.running
    /\ Top.pos <= Len(Top.path)
    /\ ~Registered(TargetOf(Top), Top.name, Top.path[Top.pos])
    /\ stack' = SetTop([Top EXCEPT !.pos = @ + 1])
    /\ UNCHANGED <<_listeners, _onceListeners, _eventTarget, regs, lastOp, ops,
                   hasCustomEvent, objects, removeCall>>

\* Is the listener of this callback a {once: true} listener?
IsOnce(target, type, callback) ==
    \E i \in DOMAIN target :
        Matches(target[i], type, callback) /\ target[i].once

\* dispatchEvent, one listener of the copy: a once listener is removed from
\* the target, then the callback is invoked with the event.
InvokeListener ==
    /\ stack # <<>>
    /\ ~Top.running
    /\ Top.pos <= Len(Top.path)
    /\ LET callback == Top.path[Top.pos]
           target == TargetOf(Top)
           after == IF IsOnce(target, Top.name, callback)
                    THEN removeEventListener(target, Top.name, <<callback>>)
                    ELSE target
       IN /\ Registered(target, Top.name, callback)
          /\ IF Top.target = 0
             THEN _eventTarget' = after /\ UNCHANGED detached
             ELSE detached' = [detached EXCEPT ![Top.target] = after]
                  /\ UNCHANGED _eventTarget
          /\ regs' = [regs EXCEPT ![callback].calls =
                          IF regs[callback].once THEN @ + 1 ELSE @]
          /\ stack' = SetTop([Top EXCEPT
                 !.running = TRUE,
                 !.log = Append(@, [callback |-> callback,
                                    detail |-> Top.event.detail])])
    /\ UNCHANGED <<_listeners, _onceListeners, lastOp, ops, hasCustomEvent,
                   gen, self, other, removeCall>>

\* The listener being invoked returns (or throws: the target reports the
\* exception and goes on with the next listener).
ListenerReturn ==
    /\ stack # <<>>
    /\ Top.running
    /\ stack' = SetTop([Top EXCEPT !.running = FALSE, !.pos = @ + 1])
    /\ UNCHANGED <<_listeners, _onceListeners, _eventTarget, regs, lastOp, ops,
                   hasCustomEvent, objects, removeCall>>

RECURSIVE PruneTableOnly(_, _, _, _)
\* Variant of PruneOnce: the slots are deleted from the table entry and the
\* listeners are left on the event target.
PruneTableOnly(arr, target, name, indices) ==
    IF indices = <<>> THEN [arr |-> arr, target |-> target]
    ELSE PruneTableOnly(DeleteSlot(arr, Head(indices)), target, name,
                        Tail(indices))

RECURSIVE PruneOnce(_, _, _, _)
\* indices.forEach(index => { removeEventListener(name, arr[index]);
\*                            delete arr[index]; })
PruneOnce(arr, target, name, indices) ==
    IF indices = <<>> THEN [arr |-> arr, target |-> target]
    ELSE PruneOnce(DeleteSlot(arr, Head(indices)),
                   removeEventListener(target, name, Slot(arr, Head(indices))),
                   name, Tail(indices))

\* Variant of PruneAfterDispatch: the table entry of the name is deleted
\* instead of being compacted.
PruneDeletingEntry(ls, ol, target, name) ==
    IF name \in DOMAIN ol
    THEN LET pruned == PruneOnce(ls[name], target, name, ol[name])
         IN [ls |-> Delete(ls, name),
             ol |-> Delete(ol, name),
             target |-> pruned.target]
    ELSE [ls |-> ls, ol |-> ol, target |-> target]

\* Variant of PruneAfterDispatch: the index entry of the name is kept after
\* the pruning (no delete this._onceListeners[name]).
PruneKeepingIndices(ls, ol, target, name) ==
    IF name \in DOMAIN ol
    THEN LET pruned == PruneOnce(ls[name], target, name, ol[name])
         IN [ls |-> Put(ls, name, _removeEmptyElements(<<pruned.arr>>)),
             ol |-> ol,
             target |-> pruned.target]
    ELSE [ls |-> ls, ol |-> ol, target |-> target]

\* The part of fireEvent that follows dispatchEvent: the state of the two
\* tables and of the target after it.
PruneAfterDispatch(ls, ol, target, name) ==
    IF name \in DOMAIN ol
    THEN LET pruned == PruneOnce(ls[name], target, name, ol[name])
         IN [ls |-> Put(ls, name, _removeEmptyElements(<<pruned.arr>>)),
             ol |-> Delete(ol, name),
             target |-> pruned.target]
    ELSE [ls |-> ls, ol |-> ol, target |-> target]

\* The dispatch of the innermost fireEvent is over.
DispatchOver ==
    IF stack = <<>> THEN FALSE ELSE ~Top.running /\ Top.pos > Len(Top.path)

\* fireEvent(name, data), after dispatchEvent has returned: the one-shot
\* entries are pruned and the call returns.
fireEventReturn ==
    /\ DispatchOver
    /\ LET after == PruneAfterDispatch(_listeners, _onceListeners,
                                       _eventTarget, Top.name)
       IN /\ _listeners' = after.ls
          /\ _onceListeners' = after.ol
          /\ _eventTarget' = after.target
          /\ lastOp' = Done("fireEvent", Top.name, "none")
    /\ stack' = SubSeq(stack, 1, Len(stack) - 1)
    /\ detached' = IF Len(stack) = 1 THEN <<>> ELSE detached
    /\ UNCHANGED <<regs, ops, hasCustomEvent, gen, self, other, removeCall>>

\* Variant of hasListeners: the keys of the index table are counted.
hasOnceListeners == Cardinality(DOMAIN _onceListeners) # 0

\* hasListeners()
hasListeners == Cardinality(DOMAIN _listeners) # 0

\* getListeners()
getListeners == _listeners

----------------------------------------------------------------------------
(* Construction (the field initialisers) and the helpers of helpers.ts *)

\* The fields the constructor gives an object: two new empty dictionaries
\* and a new text node, which has no listener.
Eventful ==
    [_listeners |-> EmptyDict, _onceListeners |-> EmptyDict,
     _eventTarget |-> <<>>]

\* The fields and the Eventify count of an instance that is not the one the
\* calls are made on.
Instance(fields, count) == [fields |-> fields, gen |-> count]

\* Variant of Eventify: the constructor is run on an object that has not
\* been constructed yet only, so that a second application keeps the fields.
EventifyKeepingFields(obj) ==
    /\ CanCall
    /\ ops < MaxOps
    /\ ops' = ops + 1
    /\ obj = self
    /\ gen' = gen + 1
    /\ lastOp' = [op |-> "Eventify", name |-> "", err |-> "none",
                  returned |-> obj]
    /\ UNCHANGED <<_listeners, _onceListeners, _eventTarget, detached, stack,
                   regs, self, other, removeCall, hasCustomEvent>>

\* Eventify(obj) on an object that is an Eventful instance already:
\* Eventful.apply(obj) runs the constructor on it again, which replaces the
\* two dictionaries and the text node by new ones, and obj is returned.  A
\* dispatch in progress goes on with the text node it was started on.
Eventify(obj) ==
    /\ CanCall
    /\ ops < MaxOps
    /\ ops' = ops + 1
    /\ obj = self
    /\ _listeners' = Eventful._listeners
    /\ _onceListeners' = Eventful._onceListeners
    /\ _eventTarget' = Eventful._eventTarget
    /\ gen' = gen + 1
    /\ IF \E i \in DOMAIN stack : stack[i].target = 0
       THEN /\ detached' = Append(detached, _eventTarget)
            /\ stack' = [i \in DOMAIN stack |->
                            IF stack[i].target = 0
                            THEN [stack[i] EXCEPT !.target = Len(detached) + 1]
                            ELSE stack[i]]
       ELSE UNCHANGED <<detached, stack>>
    /\ lastOp' = [op |-> "Eventify", name |-> "", err |-> "none",
                  returned |-> obj]
    /\ UNCHANGED <<regs, self, other, removeCall, hasCustomEvent>>

\* The fields of the instance the calls are made on.
Fields ==
    [_listeners |-> _listeners, _onceListeners |-> _onceListeners,
     _eventTarget |-> _eventTarget]

\* Variant of Switch: the text node is one object that the two instances
\* share, as a property of the prototype would be.
SwitchSharingTarget ==
    /\ stack = <<>>
    /\ self' = 3 - self
    /\ _listeners' = other.fields._listeners
    /\ _onceListeners' = other.fields._onceListeners
    /\ _eventTarget' = _eventTarget
    /\ gen' = other.gen
    /\ other' = Instance(Fields, gen)
    /\ lastOp' = Done("switch", "", "none")
    /\ UNCHANGED <<regs, stack, ops, hasCustomEvent, detached, removeCall>>

\* The calls that follow are made on the other of two instances, each made
\* by its own new Eventful(): each has the two dictionaries and the text
\* node its own run of the constructor has created.
Switch ==
    /\ stack = <<>>
    /\ self' = 3 - self
    /\ _listeners' = other.fields._listeners
    /\ _onceListeners' = other.fields._onceListeners
    /\ _eventTarget' = other.fields._eventTarget
    /\ gen' = other.gen
    /\ other' = Instance(Fields, gen)
    /\ lastOp' = Done("switch", "", "none")
    /\ UNCHANGED <<regs, stack, ops, hasCustomEvent, detached, removeCall>>

\* Bound of the arrays _removeEmptyElements is called with.
MaxLen == 4

\* What a slot of such an array is: deleted, a falsy value, or one of two
\* wrappers.
Elements == {Hole, FalsyValue, 1, 2}

\* The arguments of the direct calls: undefined or null (<<>>), or an array.
Args ==
    {<<>>} \cup { <<arr>> : arr \in UNION { [1..k -> Elements] : k \in 0..MaxLen } }

\* this._removeEmptyElements(arg), called on its own
Call_removeEmptyElements ==
    /\ ~removeCall.done
    /\ removeCall' = [removeCall EXCEPT
                         !.done = TRUE,
                         !.result = _removeEmptyElements(removeCall.arg)]
    /\ UNCHANGED <<_listeners, _onceListeners, _eventTarget, regs, stack,
                   lastOp, ops, hasCustomEvent, objects>>

\* No direct call of _removeEmptyElements is made.
NoCall == [arg |-> <<>>, done |-> FALSE, result |-> <<>>]

----------------------------------------------------------------------------
(* The state machine *)

\* new Eventful()
Constructed ==
    /\ _listeners = EmptyDict
    /\ _onceListeners = EmptyDict
    /\ _eventTarget = <<>>
    /\ regs = <<>>
    /\ stack = <<>>
    /\ lastOp = Done("new", "", "none")
    /\ ops = 0
    /\ hasCustomEvent \in BOOLEAN
    /\ detached = <<>>
    /\ gen = 0
    /\ self = 1
    /\ other = Instance(Eventful, 0)

Init == Constructed /\ removeCall = NoCall

Next ==
    \/ \E name \in Names, fnc \in Fncs : on(name, fnc)
    \/ \E name \in Names, fnc \in Fncs : once(name, fnc)
    \/ \E name \in Names : off(name)
    \/ \E name \in Names, data \in Datas : fireEvent(name, data)
    \/ SkipRemoved
    \/ InvokeListener
    \/ ListenerReturn
    \/ fireEventReturn

Spec == Init /\ [][Next]_vars

\* Bound of the exploration of the runs in which Eventify is applied again:
\* the number of calls of the API and of Eventify in a run.
MaxEventifyOps == 4

\* The runs in which Eventify is applied to the instance again, from the top
\* level or from inside a listener.
NextEventify ==
    \/ Eventify(self) /\ ops' <= MaxEventifyOps
    \/ \E name \in Names, fnc \in Fncs :
          on(name, fnc) /\ ops' <= MaxEventifyOps
    \/ \E name \in Names, fnc \in Fncs :
          once(name, fnc) /\ ops' <= MaxEventifyOps
    \/ \E name \in Names : off(name) /\ ops' <= MaxEventifyOps
    \/ \E name \in Names, data \in Datas :
          fireEvent(name, data) /\ ops' <= MaxEventifyOps
    \/ SkipRemoved
    \/ InvokeListener
    \/ ListenerReturn
    \/ fireEventReturn

SpecEventify == Init /\ [][NextEventify]_vars

\* Bound of the exploration of the runs with two instances: the number of
\* calls of the API in a run, on both instances together.
MaxTwoOps == 4

\* The runs in which the calls are made on two instances in turn.
NextTwo ==
    \/ Switch
    \/ \E name \in Names, fnc \in Fncs :
          on(name, fnc) /\ ops' <= MaxTwoOps
    \/ \E name \in Names, fnc \in Fncs :
          once(name, fnc) /\ ops' <= MaxTwoOps
    \/ \E name \in Names : off(name) /\ ops' <= MaxTwoOps
    \/ \E name \in Names, data \in Datas :
          fireEvent(name, data) /\ ops' <= MaxTwoOps
    \/ SkipRemoved
    \/ InvokeListener
    \/ ListenerReturn
    \/ fireEventReturn

SpecTwo == Init /\ [][NextTwo]_vars

\* The direct calls of _removeEmptyElements, one for each argument.
InitRemove ==
    /\ Constructed
    /\ removeCall \in { [arg |-> a, done |-> FALSE, result |-> <<>>] : a \in Args }

NextRemove == Call_removeEmptyElements

SpecRemove == InitRemove /\ [][NextRemove]_vars

----------------------------------------------------------------------------
(* Vocabulary of the properties *)

Range(seq) == { seq[i] : i \in DOMAIN seq }

\* No on or once call has ever named this event.
NeverRegistered(name) == \A w \in DOMAIN regs : regs[w].name # name

\* The index table entry of a name, empty when the name has no key.
OnceEntries(name) ==
    IF name \in DOMAIN _onceListeners THEN _onceListeners[name] ELSE <<>>

\* The detail a listener is to receive for a data argument.
DetailFor(data) == IF data = Omitted THEN EmptyObject ELSE data

\* The wrappers the dispatch of a frame has invoked, in order.
Invoked(frame) == [i \in DOMAIN frame.log |-> frame.log[i].callback]

\* How many times the dispatch of a frame has invoked a wrapper.
TimesInvoked(frame, w) ==
    Cardinality({ i \in DOMAIN frame.log : frame.log[i].callback = w })

\* The innermost fireEvent has just been called: no listener of its
\* dispatch has been looked at yet.
JustCalled == IF stack = <<>> THEN FALSE ELSE ~Top.running /\ Top.pos = 1

\* A persistent registration made before the call of this frame, for the
\* name the frame fires, that no off has removed.
PersistentFor(frame, w) ==
    /\ w \in 1..frame.startRegs
    /\ ~regs[w].once
    /\ regs[w].name = frame.name
    /\ ~regs[w].offed

\* A one-shot registration made before the call of this frame, for the
\* name the frame fires, that no off has removed.
OneShotFor(frame, w) ==
    /\ w \in 1..frame.startRegs
    /\ regs[w].once
    /\ regs[w].name = frame.name
    /\ ~regs[w].offed

----------------------------------------------------------------------------
(* C1 *)

\* C1: for every name N never registered with on or once, off(N) raises no
\* error, leaves the table entry and the index entry of N empty and leaves
\* the state of every other name unchanged.
C1_OffOfUnregisteredNameIsTolerated ==
    [][\A n \in Names :
          (off(n) /\ NeverRegistered(n)) =>
              /\ lastOp'.err = "none"
              /\ Entries(n)' = <<>>
              /\ OnceEntries(n)' = <<>>
              /\ \A m \in Names \ {n} :
                    /\ Lookup(_listeners', m) = Lookup(_listeners, m)
                    /\ Lookup(_onceListeners', m) = Lookup(_onceListeners, m)
                    /\ CallbacksOf(_eventTarget', m) = CallbacksOf(_eventTarget, m)
      ]_vars

----------------------------------------------------------------------------
(* C2 *)

\* C2: for every listener registered with once (and not removed by off),
\* when a fireEvent of its name that was called after the registration
\* returns, the callback has been invoked exactly once (by the first such
\* fireEvent, by none after it) and its entry is no longer in
\* getListeners()[N].
C2_OnceFiresOnFirstFireOnly ==
    [][fireEventReturn =>
          \A w \in DOMAIN regs :
              OneShotFor(Top, w) =>
                  /\ regs[w].calls = 1
                  /\ w \notin Range(getListeners'[Top.name])
      ]_vars

----------------------------------------------------------------------------
(* C3 *)

\* C3: when the dispatch of a fireEvent(N, data) is over, every listener
\* registered with on for N before the call and not removed by off(N) has
\* been invoked exactly once by this dispatch, and each time with a detail
\* equal to data, or to {} when data was omitted.
C3_OnInvokedOncePerFireWithDetail ==
    DispatchOver =>
        \A w \in DOMAIN regs :
            PersistentFor(Top, w) =>
                /\ TimesInvoked(Top, w) = 1
                /\ \A i \in DOMAIN Top.log :
                      Top.log[i].callback = w =>
                          Top.log[i].detail = DetailFor(Top.data)

\* C3 witness: a fire of N invokes a persistent listener after a one-shot
\* listener of N has fired and has been pruned by an earlier fire.
C3_Witness ==
    /\ DispatchOver
    /\ \E w \in DOMAIN regs :
          /\ PersistentFor(Top, w)
          /\ TimesInvoked(Top, w) = 1
    /\ \E o \in DOMAIN regs :
          /\ regs[o].once
          /\ regs[o].name = Top.name
          /\ regs[o].calls = 1
          /\ o \notin Range(Entries(Top.name))
          /\ o \notin Range(Top.path)

----------------------------------------------------------------------------
(* C4 *)

\* C4: in every reachable state hasListeners() is true exactly when some
\* event name has at least one entry in the listener table.
C4_HasListenersIffSomeEntry ==
    hasListeners <=> \E n \in DOMAIN _listeners : Len(_listeners[n]) > 0

----------------------------------------------------------------------------
(* C5 *)

\* C5: hasListeners() is false on a freshly constructed instance and true
\* right after any call of on or once.
C5_HasListenersFreshAndAfterRegistration ==
    /\ lastOp.op = "new" => ~hasListeners
    /\ lastOp.op \in {"on", "once"} => hasListeners

\* C5 witness: once has just been called, from inside a listener.
C5_Witness ==
    /\ lastOp.op = "once"
    /\ stack # <<>>
    /\ hasListeners

----------------------------------------------------------------------------
(* C6 *)

\* C6: after off(N) on a name that has a key, the table entry and the index
\* entry of N are empty sequences and no listener of N is left on the
\* target; a fireEvent(N) that follows it invokes no listener, and returns
\* without error.
C6_OffRemovesEverything ==
    /\ \A n \in Names :
          lastOp = Done("off", n, "none") =>
              /\ n \in DOMAIN _listeners /\ _listeners[n] = <<>>
              /\ n \in DOMAIN _onceListeners /\ _onceListeners[n] = <<>>
              /\ CallbacksOf(_eventTarget, n) = <<>>
    /\ \A i \in DOMAIN stack :
          stack[i].afterOff => stack[i].path = <<>> /\ stack[i].log = <<>>
    /\ lastOp.op = "fireEvent" => lastOp.err = "none"

\* C6 witness: the dispatch of a fireEvent(N) called right after an off(N)
\* that removed a one-shot listener which had never fired.
C6_Witness ==
    /\ DispatchOver
    /\ Top.afterOff
    /\ \E w \in DOMAIN regs :
          /\ regs[w].name = Top.name
          /\ regs[w].once
          /\ regs[w].offed
          /\ regs[w].calls = 0

----------------------------------------------------------------------------
(* C7 *)

\* The entries of the table of a name whose listener is still to be
\* invoked: all of them but the one-shot entries that have already fired.
Pending(name) ==
    LET StillToFire(w) == ~(regs[w].once /\ regs[w].calls >= 1)
    IN SelectSeq(Entries(name), StillToFire)

\* C7 as stated: when the dispatch of a fireEvent(N) is over, it has
\* invoked all the listeners that were registered for N when it was called,
\* in the order of their registration.
C7_AllRegisteredInvokedInOrder ==
    /\ JustCalled => Top.path = Pending(Top.name)
    /\ DispatchOver => Invoked(Top) = Top.path

\* C7 as amended: a fireEvent(N) dispatches to the entries of the table of
\* N at the call, but for the one-shot entries that have already fired, in
\* the order of their registration; when its dispatch is over it has
\* invoked them in that order, each once, except those removed while the
\* dispatch was in progress: the listeners removed by an off(N) made from a
\* listener, and the one-shot listeners that a nested fireEvent(N) had
\* already invoked.
C7_RegisteredInvokedInOrderUnlessRemoved ==
    /\ JustCalled => Top.path = Pending(Top.name)
    /\ DispatchOver =>
          LET WasInvoked(w) == TimesInvoked(Top, w) = 1
          IN /\ Invoked(Top) = SelectSeq(Top.path, WasInvoked)
             /\ \A w \in Range(Top.path) :
                   \/ WasInvoked(w)
                   \/ regs[w].offed
                   \/ regs[w].once /\ regs[w].calls = 1

\* C7 witness: one fire has invoked a persistent and a one-shot listener of
\* the same name, in the order of their registration.
C7_Witness ==
    /\ DispatchOver
    /\ Len(Top.path) = 2
    /\ Invoked(Top) = Top.path
    /\ Top.path[1] < Top.path[2]
    /\ \E w \in Range(Top.path) : regs[w].once
    /\ \E w \in Range(Top.path) : ~regs[w].once

----------------------------------------------------------------------------
(* C8 *)

\* C8: a one-shot callback is invoked at most once per call of once, also
\* when a listener fires the same event again from inside its callback.
C8_OneShotInvokedAtMostOnce ==
    \A w \in DOMAIN regs : regs[w].once => regs[w].calls <= 1

\* C8 witness: a one-shot listener has fired its own event again from
\* inside its callback, and the dispatch of the inner fire is over.
C8_Witness ==
    /\ Len(stack) = 2
    /\ DispatchOver
    /\ stack[1].name = stack[2].name
    /\ LET w == stack[1].path[stack[1].pos]
       IN regs[w].once /\ regs[w].calls = 1

----------------------------------------------------------------------------
(* C9 *)

\* C9: a fireEvent(N) called when the table has no entry for N finds no
\* listener of N on the target, and its return raises no error and leaves
\* the table entries and the target registrations of every name unchanged.
C9_FireWithoutListenersChangesNothing ==
    /\ [](JustCalled /\ Entries(Top.name) = <<>> => Top.path = <<>>)
    /\ [][(fireEventReturn /\ Entries(Top.name) = <<>> /\ Top.log = <<>>) =>
              /\ lastOp'.err = "none"
              /\ _listeners' = _listeners
              /\ _eventTarget' = _eventTarget
         ]_vars

\* C9 witness: a fire of a name all of whose listeners have been removed is
\* about to return, while another name has a listener.
C9_Witness ==
    /\ DispatchOver
    /\ Top.path = <<>>
    /\ Top.name \in DOMAIN _listeners
    /\ _listeners[Top.name] = <<>>
    /\ \E n \in Names \ {Top.name} : Entries(n) # <<>>

----------------------------------------------------------------------------
(* C10 *)

\* The persistent registrations of a callback for a name that no off has
\* removed.
PersistentRegs(name, fnc) ==
    { w \in DOMAIN regs :
        /\ ~regs[w].once
        /\ regs[w].name = name
        /\ regs[w].fnc = fnc
        /\ ~regs[w].offed }

\* C10: the table of N has one entry for every on(N, fnc) call (k calls
\* with the same callback give k entries), and each fireEvent(N) invokes the
\* callback once for each of the entries made before it was called.
C10_OnNeverDeduplicates ==
    /\ \A n \in Names, fnc \in Fncs :
          Cardinality({ i \in DOMAIN Entries(n) : Entries(n)[i] \in PersistentRegs(n, fnc) })
              = Cardinality(PersistentRegs(n, fnc))
    /\ DispatchOver =>
          \A fnc \in Fncs :
              Cardinality({ i \in DOMAIN Top.log :
                              Top.log[i].callback \in PersistentRegs(Top.name, fnc) })
                  = Cardinality(PersistentRegs(Top.name, fnc) \cap 1..Top.startRegs)

\* C10 witness: the same callback registered twice with on for one name,
\* and a fire of that name that has invoked it twice.
C10_Witness ==
    /\ DispatchOver
    /\ \E fnc \in Fncs :
          /\ Cardinality(PersistentRegs(Top.name, fnc)) = 2
          /\ Cardinality({ i \in DOMAIN Top.log :
                             Top.log[i].callback \in PersistentRegs(Top.name, fnc) }) = 2

----------------------------------------------------------------------------
(* C11 *)

\* C11: Eventify(obj) returns the object it was given; applied to an object
\* that has registrations already it leaves the listener table and the index
\* table empty, and no fireEvent called afterwards invokes a listener that
\* was registered before it.
C11_EventifyAgainResets ==
    /\ [](\A i \in DOMAIN stack : \A j \in DOMAIN stack[i].log :
             regs[stack[i].log[j].callback].gen >= stack[i].gen)
    /\ [][Eventify(self) =>
             /\ lastOp'.returned = self
             /\ self' = self
             /\ _listeners' = EmptyDict
             /\ _onceListeners' = EmptyDict
             /\ \A n \in Names : Entries(n)' = <<>> /\ OnceEntries(n)' = <<>>]_vars

\* C11 witness: a one-shot listener registered before Eventify and one
\* registered after it for the same name; a fireEvent of the name has
\* returned and has invoked the second but not the first.
C11_Witness ==
    /\ stack = <<>>
    /\ lastOp.op = "fireEvent"
    /\ \E v, w \in DOMAIN regs :
          /\ regs[v].gen = 0 /\ regs[w].gen = 1
          /\ regs[v].name = lastOp.name /\ regs[w].name = lastOp.name
          /\ regs[v].once /\ regs[w].once
          /\ ~regs[v].offed
          /\ regs[v].calls = 0 /\ regs[w].calls = 1

----------------------------------------------------------------------------
(* C12 *)

\* C12: in every sequence of calls, those made from inside a listener during
\* a dispatch of the same name included, a one-shot registration that has
\* not been invoked and that no off has removed is still registered: it is
\* an entry of the listener table and a listener of the event target.
C12_UninvokedOneShotStaysRegistered ==
    \A w \in DOMAIN regs :
        (regs[w].once /\ regs[w].calls = 0 /\ ~regs[w].offed) =>
            /\ w \in Range(Entries(regs[w].name))
            /\ Registered(_eventTarget, regs[w].name, w)

----------------------------------------------------------------------------
(* C13 *)

\* C13: in every reachable state, those inside nested fireEvent calls
\* included, every position stored in the index entry of a name is a valid
\* index of the table entry of that name, and the slot at that position
\* holds a wrapper registered by once: never a persistent listener, never a
\* deleted or missing slot.
C13_OnceIndicesPointAtOneShots ==
    \A n \in DOMAIN _onceListeners :
        \A i \in DOMAIN _onceListeners[n] :
            LET index == _onceListeners[n][i]
            IN /\ n \in DOMAIN _listeners
               /\ index >= 0
               /\ index < Len(_listeners[n])
               /\ Slot(_listeners[n], index) # <<>>
               /\ regs[Slot(_listeners[n], index)[1]].once

\* C13 witness: inside a fireEvent nested in another one, the table entry of
\* a name holds a persistent listener followed by a one-shot listener, and
\* the index entry records the position of the latter.
C13_Witness ==
    /\ Len(stack) = 2
    /\ \E n \in Names :
          /\ Len(Entries(n)) = 2
          /\ ~regs[Entries(n)[1]].once
          /\ regs[Entries(n)[2]].once
          /\ OnceEntries(n) = <<1>>

----------------------------------------------------------------------------
(* C14 *)

\* C14: whenever no fireEvent is in progress, after any sequence of calls,
\* those made from inside listeners included, the listeners the event
\* target holds for each name are the wrappers of the table entry of that
\* name, in the same order.
C14_TargetAgreesWithTable ==
    stack = <<>> =>
        \A n \in Names : CallbacksOf(_eventTarget, n) = Entries(n)

\* C14 witness: a fireEvent during which a listener registered a one-shot
\* listener for the name being fired has returned, and the name still has a
\* persistent listener.
C14_Witness ==
    /\ stack = <<>>
    /\ lastOp.op = "fireEvent"
    /\ Entries(lastOp.name) # <<>>
    /\ \E w \in DOMAIN regs :
          /\ regs[w].once
          /\ regs[w].name = lastOp.name
          /\ regs[w].calls = 0
          /\ ~regs[w].offed
          /\ w \notin Range(Entries(lastOp.name))

----------------------------------------------------------------------------
(* C15 *)

\* A wrapper registered by on.
IsPersistent(w) == ~regs[w].once

\* C15: when fireEvent(N) prunes, it removes exactly the one-shot entries of
\* N: the persistent entries of N are all still present afterwards, in the
\* same relative order, and once fireEvent has returned the table entry of N
\* has no empty slot (its length is the number of the listeners left).
C15_PruneRemovesExactlyOneShots ==
    /\ [](\A n \in DOMAIN _listeners : Hole \notin Range(_listeners[n]))
    /\ [][\A n \in Names :
             (fireEventReturn /\ Top.name = n /\ n \in DOMAIN _onceListeners) =>
                 /\ Entries(n)' = SelectSeq(Entries(n), IsPersistent)
                 /\ Len(Entries(n)') =
                        Cardinality({ w \in DOMAIN regs :
                                        /\ w \in Range(Entries(n)')
                                        /\ Registered(_eventTarget', n, w) })
         ]_vars

\* C15 witness: a fireEvent has returned for a name registered with on, once
\* and on, in that order: the one-shot wrapper has been invoked and is gone,
\* and the two persistent wrappers are the whole table entry.
C15_Witness ==
    /\ stack = <<>>
    /\ lastOp.op = "fireEvent"
    /\ \E u, v, w \in DOMAIN regs :
          /\ u < v /\ v < w
          /\ ~regs[u].once /\ regs[v].once /\ ~regs[w].once
          /\ regs[v].name = lastOp.name
          /\ regs[v].calls = 1
          /\ Entries(lastOp.name) = <<u, w>>

----------------------------------------------------------------------------
(* C16 *)

\* The state of a name: its table entry, its index entry and the listeners
\* the event target holds for it.
StateOf(ls, ol, target, m) ==
    <<Lookup(ls, m), Lookup(ol, m), CallbacksOf(target, m)>>

\* A step of the call op(N): the call of on, once or off, or any step of a
\* fireEvent(N) from its call to its return.
StepOf(n) ==
    \/ \E fnc \in Fncs : on(n, fnc) \/ once(n, fnc)
    \/ off(n)
    \/ \E data \in Datas : fireEvent(n, data)
    \/ /\ IF stack = <<>> THEN FALSE ELSE Top.name = n
       /\ SkipRemoved \/ InvokeListener \/ ListenerReturn \/ fireEventReturn

\* C16: for distinct names N and M, fireEvent(N) invokes no listener
\* registered for M, and fireEvent(N), off(N), on(N, f) and once(N, f)
\* leave the table entry of M, the index entry of M and the listeners the
\* event target holds for M unchanged.
C16_OtherNamesUntouched ==
    /\ [](\A i \in DOMAIN stack : \A j \in DOMAIN stack[i].log :
             regs[stack[i].log[j].callback].name = stack[i].name)
    /\ [][\A n \in Names :
             StepOf(n) =>
                 \A m \in Names \ {n} :
                     StateOf(_listeners', _onceListeners', _eventTarget', m)
                         = StateOf(_listeners, _onceListeners, _eventTarget, m)
         ]_vars

\* C16 witness: a fireEvent of one name has returned after invoking and
\* pruning a one-shot listener, while another name has a persistent and a
\* one-shot listener, both registered and neither invoked.
C16_Witness ==
    /\ stack = <<>>
    /\ lastOp.op = "fireEvent"
    /\ \E w \in DOMAIN regs :
          /\ regs[w].once /\ regs[w].name = lastOp.name /\ regs[w].calls = 1
    /\ \E m \in Names \ {lastOp.name} :
          /\ Len(Entries(m)) = 2
          /\ OnceEntries(m) = <<1>>
          /\ CallbacksOf(_eventTarget, m) = Entries(m)
          /\ regs[Entries(m)[2]].calls = 0

----------------------------------------------------------------------------
(* C17 *)

\* C17: two separately constructed instances are isolated, also when both
\* use the same event name: a fireEvent on one invokes only listeners that
\* were registered on that one, and no call on one changes the listener
\* table, the index table or the event target of the other.
C17_InstancesAreIsolated ==
    /\ [](\A i \in DOMAIN stack : \A j \in DOMAIN stack[i].log :
             regs[stack[i].log[j].callback].inst = self)
    /\ [](\A w \in DOMAIN regs :
             regs[w].inst # self =>
                 /\ w \notin UNION { Range(_listeners[n]) : n \in DOMAIN _listeners }
                 /\ \A n \in Names : ~Registered(_eventTarget, n, w))
    /\ [][self' = self => other' = other]_vars
    /\ [][self' # self => other'.fields = Fields /\ Fields' = other.fields]_vars

\* C17 witness: each of the two instances has a one-shot listener for the
\* same name; a fireEvent of the name on one of them has returned and has
\* invoked its own listener, and the listener of the other instance is
\* uninvoked and still in the table and on the target of that instance.
C17_Witness ==
    /\ stack = <<>>
    /\ lastOp.op = "fireEvent"
    /\ \E v, w \in DOMAIN regs :
          /\ regs[v].inst = self /\ regs[w].inst # self
          /\ regs[v].name = lastOp.name /\ regs[w].name = lastOp.name
          /\ regs[v].once /\ regs[w].once
          /\ regs[v].calls = 1 /\ regs[w].calls = 0
          /\ lastOp.name \in DOMAIN other.fields._listeners
          /\ other.fields._listeners[lastOp.name] = <<w>>
          /\ CallbacksOf(other.fields._eventTarget, lastOp.name) = <<w>>

----------------------------------------------------------------------------
(* C18 *)

\* The positions of an array whose slot is present and holds a truthy value.
KeptPositions(arr) ==
    { i \in DOMAIN arr : arr[i] # Hole /\ arr[i] # FalsyValue }

\* C18: _removeEmptyElements returns an empty array for a null or absent
\* argument; for an array it returns the elements that are present and
\* truthy, all of them and nothing else, in their original order.
C18_RemoveEmptyElementsKeepsTruthy ==
    removeCall.done =>
        IF removeCall.arg = <<>>
        THEN removeCall.result = <<>>
        ELSE LET arr == removeCall.arg[1]
                 kept == KeptPositions(arr)
             IN /\ Len(removeCall.result) = Cardinality(kept)
                /\ \A i \in kept :
                      removeCall.result[Cardinality({ j \in kept : j <= i })]
                          = arr[i]

\* C18 witness: a call with an array that has a deleted slot, a falsy
\* element and two truthy elements has returned the two truthy elements.
C18_Witness ==
    /\ removeCall.done
    /\ removeCall.arg # <<>>
    /\ Hole \in Range(removeCall.arg[1])
    /\ FalsyValue \in Range(removeCall.arg[1])
    /\ removeCall.result = <<2, 1>>

====
